---- MODULE Spec2Model ----
(***************************************************************************)
(* Model of the Tenjin ("10j") provisioning engine: cli/provisioning.py,   *)
(* cli/constants.py, cli/hermetic.py, cli/sha256sum.py, cli/repo_root.py.  *)
(*                                                                         *)
(* Spec      : one provisioning process after another; each process runs   *)
(*             provision_desires(), one of the want_*() operations or      *)
(*             provision_10j_deps_into() against the persisted store, the  *)
(*             local directory and the archive files on disk.              *)
(* SpecStore : the TrackingWhatWeHave API (compatible, query,              *)
(*             note_we_have) called directly on arbitrary store contents.  *)
(* SpecTree  : extract_tarball, provision_10j_llvm_into and compute_sha256 *)
(*             called directly on a directory, entry by entry.             *)
(* SpecShared: two processes noting into the store of one local directory. *)
(* SpecWalk  : one call of repo_root.find_repo_root_dir_Path().            *)
(***************************************************************************)
EXTENDS Integers, Sequences, FiniteSets, TLC

VARIABLES
    have,     \* HAVE._have: the in-memory store, key -> string
    file,     \* config.10j-HAVE.json on disk
    live,     \* the local directory: release each tool reports, <<>> if none
    dirty,    \* tarball tools: is the tool's target directory non-empty
    plat,     \* <<platform.system(), platform.machine()>>
    status,   \* the current process: idle, running, done, failed, exited, killed
    entry,    \* the operation the current process runs
    stack,    \* the steps the current process has still to take, next first
    log,      \* what the current process has done so far
    prev,     \* how the preceding process of the same operation ended, "none" if first
    runs,     \* the number of processes started so far
    api,      \* SpecStore: the last direct call of the store API and its result
    art,      \* downloaded archive files on disk: "none", "good" or "bad" content
    tree      \* SpecTree: the entries of the directory a routine is called on

vars == <<have, file, live, dirty, plat, status, entry, stack, log, prev, runs, api, art,
          tree>>

(***************************************************************************)
(* Strings.  A string is a record: a version-like text is its release      *)
(* numbers `rel` (raw = ""), possibly followed by a newline `nl` as tools  *)
(* print it; any other text is kept in `raw` (rel = <<>>).                 *)
(***************************************************************************)
None == [none |-> TRUE]

VStr(r) == [rel |-> r, raw |-> "", nl |-> FALSE]

Raw(s) == [rel |-> <<>>, raw |-> s, nl |-> FALSE]

\* what a tool prints for --version: the release and a newline
Output(r) == [rel |-> r, raw |-> "", nl |-> TRUE]

(***************************************************************************)
(* packaging.version.Version: parsing strips surrounding whitespace and    *)
(* fails on text that is no version; str() prints the release as given;    *)
(* comparison ignores trailing zeros of the release.                       *)
(***************************************************************************)
Parses(s) == s # None /\ s.raw = "" /\ s.rel # <<>>

Version(s) == [release |-> s.rel]

StrOfVersion(v) == VStr(v.release)

RECURSIVE StripZeros(_)
StripZeros(r) ==
    IF r # <<>> /\ r[Len(r)] = 0 THEN StripZeros(SubSeq(r, 1, Len(r) - 1)) ELSE r

RECURSIVE TupleLess(_, _)
TupleLess(a, b) ==
    IF b = <<>> THEN FALSE
    ELSE IF a = <<>> THEN TRUE
    ELSE IF Head(a) # Head(b) THEN Head(a) < Head(b)
    ELSE TupleLess(Tail(a), Tail(b))

VersionGE_strict(v, w) == TupleLess(StripZeros(w.release), StripZeros(v.release))

\* Version.__ge__
VersionGE(v, w) == ~TupleLess(StripZeros(v.release), StripZeros(w.release))

(***************************************************************************)
(* constants.py: the manifest.                                             *)
(***************************************************************************)
WANT ==
    ("10j-llvm" :> VStr(<<18, 1, 8>>)) @@
    ("10j-opam" :> VStr(<<2, 3, 0>>)) @@
    ("10j-dune" :> VStr(<<3, 18, 0>>)) @@
    ("10j-ocaml" :> VStr(<<5, 2, 0>>)) @@
    ("10j-cmake" :> VStr(<<3, 31, 7>>)) @@
    ("10j-bullseye-sysroot-extras" :> Raw("rev-03d4672c4")) @@
    ("10j-build-deps" :> Raw("rev-03d4672c4"))

(***************************************************************************)
(* TrackingWhatWeHave.                                                     *)
(***************************************************************************)
NoFile == [state |-> "absent", map |-> <<>>]

Json(m) == [state |-> "json", map |-> m]

\* save opens the file for writing, which empties it, and then writes the
\* mapping piece by piece: a process that ends in between leaves a file that
\* is not a JSON document
Torn == [state |-> "torn", map |-> <<>>]

\* __init__: a file that cannot be opened gives the empty mapping; only
\* OSError is caught, so a file that is not JSON ends the process
Loads(f) == f.state # "torn"

Load(f) == IF f.state = "json" THEN f.map ELSE <<>>

query(h, name) == IF name \in DOMAIN h THEN h[name] ELSE None

Put(h, name, now) == [k \in DOMAIN h \cup {name} |-> IF k = name THEN now ELSE h[k]]

compatible_strict(h, name, by) ==
    IF name \notin DOMAIN WANT THEN "AssertionError"
    ELSE IF name \notin DOMAIN h THEN "NOT_INSTALLED"
    ELSE IF by = "VERSION"
         THEN IF ~Parses(h[name]) THEN "InvalidVersion"
              ELSE IF VersionGE_strict(Version(h[name]), Version(WANT[name]))
                   THEN "VERSION_OK" ELSE "VERSION_TOO_OLD"
         ELSE IF h[name] = WANT[name] THEN "VERSION_OK" ELSE "VERSION_TOO_OLD"

compatible_byversion(h, name, by) ==
    IF name \notin DOMAIN WANT THEN "AssertionError"
    ELSE IF name \notin DOMAIN h THEN "NOT_INSTALLED"
    ELSE IF ~Parses(h[name]) THEN "VERSION_TOO_OLD"
    ELSE IF VersionGE(Version(h[name]), Version(WANT[name]))
         THEN "VERSION_OK" ELSE "VERSION_TOO_OLD"

compatible_lenient(h, name, by) ==
    IF name \notin DOMAIN h THEN "NOT_INSTALLED"
    ELSE IF name \notin DOMAIN WANT THEN "VERSION_TOO_OLD"
    ELSE IF by = "VERSION"
         THEN IF ~Parses(h[name]) THEN "InvalidVersion"
              ELSE IF VersionGE(Version(h[name]), Version(WANT[name]))
                   THEN "VERSION_OK" ELSE "VERSION_TOO_OLD"
         ELSE IF h[name] = WANT[name] THEN "VERSION_OK" ELSE "VERSION_TOO_OLD"

compatible_absent_is_old(h, name, by) ==
    IF name \notin DOMAIN WANT THEN "AssertionError"
    ELSE IF name \notin DOMAIN h THEN "VERSION_TOO_OLD"
    ELSE IF by = "VERSION"
         THEN IF ~Parses(h[name]) THEN "InvalidVersion"
              ELSE IF VersionGE(Version(h[name]), Version(WANT[name]))
                   THEN "VERSION_OK" ELSE "VERSION_TOO_OLD"
         ELSE IF h[name] = WANT[name] THEN "VERSION_OK" ELSE "VERSION_TOO_OLD"

compatible(h, name, by) ==
    IF name \notin DOMAIN WANT THEN "AssertionError"
    ELSE IF name \notin DOMAIN h THEN "NOT_INSTALLED"
    ELSE IF by = "VERSION"
         THEN IF ~Parses(h[name]) THEN "InvalidVersion"
              ELSE IF VersionGE(Version(h[name]), Version(WANT[name]))
                   THEN "VERSION_OK" ELSE "VERSION_TOO_OLD"
         ELSE IF h[name] = WANT[name] THEN "VERSION_OK" ELSE "VERSION_TOO_OLD"

\* note_we_have: the match on [version is None, sha256hex is None] raises
\* ValueError when both or neither are given
NoteArgsError_neither_only(version, sha256hex) == version = None /\ sha256hex = None

NoteArgsError(version, sha256hex) == (version = None) = (sha256hex = None)

\* now = str(version) if version else sha256hex (a Version is always true)
NoteNow(version, sha256hex) ==
    IF version # None THEN StrOfVersion(version) ELSE sha256hex

\* note_we_have with exactly one of version / sha256hex given: the new
\* mapping, and the file, written only when the value changed
NoteHave(h, name, now) == Put(h, name, now)

NoteFile_never(h, f, name, now) == f

NoteFile(h, f, name, now) ==
    IF query(h, name) # now THEN Json(Put(h, name, now)) ELSE f

(***************************************************************************)
(* The tools, their tracking keys and their comparison rules.              *)
(***************************************************************************)
Tools == {"deps", "llvm", "cmake", "opam", "ocaml", "dune"}

VersionTools == Tools \ {"deps"}

TarballTools == {"deps", "llvm", "cmake"}

\* want_10j_deps builds its key from the platform; the others are literals
KeyFor(t, p) ==
    IF t = "deps" THEN "10j-build-deps_" \o p[1] \o "-" \o p[2] ELSE "10j-" \o t

KeyOf(t) == KeyFor(t, plat)

RuleOf(t) == IF t = "deps" THEN "SHA256" ELSE "VERSION"

\* the comment at provisioning.py:102 lists the platforms in view
Platforms == {<<"Linux", "x86_64">>, <<"Linux", "arm64">>, <<"Darwin", "arm64">>}

Entries ==
    {"provision_desires", "want_10j_deps", "want_10j_llvm", "want_cmake",
     "want_opam", "want_ocaml", "want_dune", "provision_10j_deps_into"}

(***************************************************************************)
(* Steps.  A step is [op, t, arg]; the stack holds the steps still to be   *)
(* taken by the running process, the next one first: a call replaces the   *)
(* calling step by the callee's steps.                                     *)
(***************************************************************************)
L(op, t, arg) == [op |-> op, t |-> t, arg |-> arg]

E(ev, t, val, res) == [ev |-> ev, t |-> t, val |-> val, res |-> res]

\* what want_cmake, want_10j_llvm and want_10j_deps do after want_generic
AfterWant(t) == IF t \in TarballTools THEN <<L("note", t, None)>> ELSE <<>>

\* the provisioner of each tool, as the steps it takes
Routine(t, arg) ==
    CASE t = "deps"  -> <<L("fetch", t, arg), L("unpack", t, arg)>>
      [] t = "cmake" -> <<L("fetch", t, arg), L("unpack", t, arg)>>
      [] t = "llvm"  -> <<L("fetch", t, arg), L("unpack", t, arg), L("llvm_post", t, arg)>>
      [] t = "opam"  -> <<L("opam_binary", t, arg), L("note", t, arg)>>
      [] t = "ocaml" -> <<L("ensure", "opam", None), L("install_ocaml", t, arg),
                          L("note", t, arg)>>
      [] t = "dune"  -> <<L("ensure", "ocaml", None), L("dune_live", t, arg),
                          L("note", t, arg)>>

\* the SHA-256 of the build-deps bundle as published
BundleDigest == Raw("sha256-of-the-published-bundle")

Body_gate_after_llvm(e) ==
    CASE e = "provision_desires" ->
             <<L("ensure", "llvm", None), L("rust", "rust", None),
               L("ensure", "deps", None), L("ensure", "cmake", None),
               L("ensure", "dune", None)>>
      [] e = "want_10j_deps" -> <<L("ensure", "deps", None)>>
      [] e = "want_10j_llvm" -> <<L("ensure", "llvm", None)>>
      [] e = "want_cmake"    -> <<L("ensure", "cmake", None)>>
      [] e = "want_opam"     -> <<L("ensure", "opam", None)>>
      [] e = "want_ocaml"    -> <<L("ensure", "ocaml", None)>>
      [] e = "want_dune"     -> <<L("ensure", "dune", None)>>
      [] e = "provision_10j_deps_into" ->
             <<L("fetch", "deps", BundleDigest), L("unpack", "deps", BundleDigest)>>

Body(e) ==
    CASE e = "provision_desires" ->
             <<L("rust", "rust", None), L("ensure", "deps", None),
               L("ensure", "llvm", None), L("ensure", "cmake", None),
               L("ensure", "dune", None)>>
      [] e = "want_10j_deps" -> <<L("ensure", "deps", None)>>
      [] e = "want_10j_llvm" -> <<L("ensure", "llvm", None)>>
      [] e = "want_cmake"    -> <<L("ensure", "cmake", None)>>
      [] e = "want_opam"     -> <<L("ensure", "opam", None)>>
      [] e = "want_ocaml"    -> <<L("ensure", "ocaml", None)>>
      [] e = "want_dune"     -> <<L("ensure", "dune", None)>>
      [] e = "provision_10j_deps_into" ->
             <<L("fetch", "deps", BundleDigest), L("unpack", "deps", BundleDigest)>>

At(op) == status = "running" /\ stack # <<>> /\ Head(stack).op = op

\* an exception that nothing catches ends the process where it is: the
\* steps not yet taken stay in `stack`, never to be taken
Raise_and_go_on(t, why, lg) ==
    /\ status' = "running"
    /\ stack' = Tail(stack)
    /\ log' = Append(lg, E("fail", t, None, why))

Raise(t, why, lg) ==
    /\ status' = "failed"
    /\ stack' = stack
    /\ log' = Append(lg, E("fail", t, None, why))

Fail(t, why) == Raise(t, why, log)

(***************************************************************************)
(* want_generic: the decision it takes from compatible().                  *)
(***************************************************************************)
want_generic_keep_old(h, k, by) ==
    LET r == compatible(h, k, by)
    IN  [res |-> r, call |-> r = "NOT_INSTALLED",
         arg |-> IF k \in DOMAIN WANT THEN WANT[k] ELSE None]

want_generic_plan(h, k, by) ==
    LET r == compatible(h, k, by)
    IN  [res |-> r, call |-> r \in {"VERSION_TOO_OLD", "NOT_INSTALLED"},
         arg |-> IF k \in DOMAIN WANT THEN WANT[k] ELSE None]

\* the number of times the operation is called, one process after another
MaxRuns == 2

(***************************************************************************)
(* Initial states: any store an earlier revision of the manifest may have  *)
(* left (each version key absent, older than, equal to or newer than the   *)
(* manifest), and a local directory that matches the store, except that    *)
(* the OCaml switch and Dune may be ahead of what the store records.       *)
(***************************************************************************)
Older(r) == [r EXCEPT ![1] = @ - 1]

Newer(r) == [r EXCEPT ![1] = @ + 1]

Wanted(t) == WANT["10j-" \o t].rel

Slots == {"absent", "older", "wanted", "padded", "newer"}

\* "padded" is the wanted release written with one more ".0"
StoreValue(t, slot) ==
    CASE slot = "absent" -> None
      [] slot = "older" -> VStr(Older(Wanted(t)))
      [] slot = "wanted" -> VStr(Wanted(t))
      [] slot = "padded" -> VStr(Wanted(t) \o <<0>>)
      [] slot = "newer" -> VStr(Newer(Wanted(t)))

Present(g) == [k \in {x \in DOMAIN g : g[x] # None} |-> g[k]]

Rename(g) == [k \in {"10j-" \o t : t \in VersionTools} |->
                 LET t == CHOOSE t \in VersionTools : "10j-" \o t = k
                 IN  StoreValue(t, g[t])]

\* the tools an operation can reach: the store and the directory of the
\* other tools are left as on a fresh checkout
Reach(e) ==
    CASE e = "provision_desires" -> VersionTools
      [] e = "want_10j_deps" -> {}
      [] e = "want_10j_llvm" -> {"llvm"}
      [] e = "want_cmake" -> {"cmake"}
      [] e = "want_opam" -> {"opam"}
      [] e = "want_ocaml" -> {"opam", "ocaml"}
      [] e = "want_dune" -> {"opam", "ocaml", "dune"}
      [] e = "provision_10j_deps_into" -> {}

\* a system require_rust_stuff has no advice for
OtherPlatform == <<"FreeBSD", "amd64">>

PlatformsOf(e) ==
    IF e \in {"want_opam", "want_ocaml", "want_dune"}
    THEN {<<"Linux", "x86_64">>}
    ELSE IF e = "provision_desires" THEN Platforms \cup {OtherPlatform}
    ELSE Platforms

\* the stores a run of the whole sequence starts from are those a manifest
\* bump leaves: each key absent, older or as wanted
SlotsOf(e) == IF e = "provision_desires" THEN {"absent", "older", "wanted"} ELSE Slots

InitStores(e) ==
    {Present(Rename(g)) :
        g \in {g \in [VersionTools -> SlotsOf(e)] :
                  \A t \in VersionTools : t \notin Reach(e) => g[t] = "absent"}}

Recorded(h, t) == IF "10j-" \o t \in DOMAIN h THEN h["10j-" \o t].rel ELSE <<>>

\* a tool directory left by an earlier installation whose record is gone
\* (config.10j-HAVE.json deleted): it holds a release older than wanted
Unrecorded(h, e, t) ==
    IF t \in Reach(e) /\ "10j-" \o t \notin DOMAIN h THEN {Older(Wanted(t))} ELSE {}

NoApi == [op |-> "none", name |-> "", by |-> "", res |-> ""]

\* the archive files: the temporary file of download_and_extract_tarball in
\* the working directory, one per tarball tool, and tenjin-sysroot.tar.xz
Archives == TarballTools \cup {"sysroot"}

NoArt == [a \in Archives |-> "none"]

\* a directory tree is a function from paths (sequences of names, relative
\* to the directory a routine is called on) to entries; NoTree has no
\* entry at all, not even the directory itself
NoTree == <<>>

Init ==
    /\ entry \in Entries
    /\ have \in InitStores(entry)
    /\ file \in (IF have = <<>> THEN {NoFile, Json(have)} ELSE {Json(have)})
    /\ \E oc \in {Recorded(have, "ocaml"), Wanted("ocaml")},
          du \in {Recorded(have, "dune"), Wanted("dune")},
          cm \in {Recorded(have, "cmake")} \cup Unrecorded(have, entry, "cmake"),
          ll \in {Recorded(have, "llvm")} \cup Unrecorded(have, entry, "llvm") :
          live = [t \in Tools |->
                     CASE t = "deps" -> <<>>
                       [] t = "ocaml" -> oc
                       [] t = "dune" -> du
                       [] t = "cmake" -> cm
                       [] t = "llvm" -> ll
                       [] OTHER -> Recorded(have, t)]
    /\ dirty = [t \in TarballTools |-> live[t] # <<>>]
    /\ plat \in PlatformsOf(entry)
    /\ status = "idle"
    /\ stack = <<>>
    /\ log = <<>>
    /\ prev = "none"
    /\ runs = 0
    /\ api = NoApi
    /\ art = NoArt
    /\ tree = NoTree

(***************************************************************************)
(* A process starts: the module is imported (HAVE is loaded from the file) *)
(* and one operation is called.                                            *)
(***************************************************************************)
Begin ==
    /\ status # "running"
    /\ runs < MaxRuns
    /\ runs' = runs + 1
    /\ have' = Load(file)
    /\ stack' = Body(entry)
    /\ IF Loads(file)
       THEN /\ log' = <<>>
            /\ status' = "running"
       ELSE /\ log' = <<E("fail", "none", None, "JSONDecodeError")>>
            /\ status' = "failed"
    /\ prev' = IF runs = 0 THEN "none" ELSE status
    /\ UNCHANGED <<file, live, dirty, plat, entry, tree, api, art>>

\* a function returns to the top level: the operation has completed
Return ==
    /\ status = "running"
    /\ stack = <<>>
    /\ status' = "done"
    /\ UNCHANGED <<have, file, live, dirty, plat, entry, tree, stack, log, prev, runs, api, art>>

\* the process is terminated from outside, between any two steps
Interrupt ==
    /\ status = "running"
    /\ status' = "killed"
    /\ log' = Append(log, E("kill", "none", None, ""))
    /\ UNCHANGED <<have, file, live, dirty, plat, entry, tree, stack, prev, runs, api, art>>

\* the tools require_rust_stuff looks for with shutil.which, in this order
RustTools == <<"rustc", "cargo", "rustup">>

\* the systems complain_about_tool_then_die has advice for
RustupSystems == {"Linux", "Darwin"}

\* require_rust_stuff, then the query and the banner of provision_desires.
\* With a tool missing, complain_about_tool_then_die exits at once on a
\* system it has no advice for; else it downloads the rustup installer
\* (which may raise) and exits
require_rust_stuff ==
    /\ At("rust")
    /\ \E missing \in SUBSET {RustTools[i] : i \in DOMAIN RustTools},
          got \in {"good", "error"} :
          LET installer == E("fetch", "rust", None, "rustup-installer.sh")
              exit == E("exit", "rust", None, "1")
          IN  IF missing = {}
              THEN /\ stack' = Tail(stack)
                   /\ UNCHANGED <<status, log>>
              ELSE IF plat[1] \notin RustupSystems
              THEN /\ status' = "exited"
                   /\ stack' = stack
                   /\ log' = Append(log, exit)
              ELSE IF got = "error"
              THEN Fail("rust", "DownloadFailed")
              ELSE /\ status' = "exited"
                   /\ stack' = stack
                   /\ log' = log \o <<installer, exit>>
    /\ UNCHANGED <<have, file, live, dirty, plat, entry, tree, prev, runs, api, art>>

want_generic(t) ==
    /\ At("ensure")
    /\ Head(stack).t = t
    /\ LET k == KeyOf(t)
           d == want_generic_plan(have, k, RuleOf(t))
           ev == E("ensure", t, query(have, k), d.res)
       IN  IF d.res \notin {"VERSION_OK", "VERSION_TOO_OLD", "NOT_INSTALLED"}
           THEN Raise(t, d.res, Append(log, ev))
           ELSE IF d.call
           THEN /\ stack' = Routine(t, d.arg) \o AfterWant(t) \o Tail(stack)
                /\ log' = log \o <<ev, E("acq", t, d.arg, "")>>
                /\ UNCHANGED status
           ELSE /\ stack' = AfterWant(t) \o Tail(stack)
                /\ log' = Append(log, ev)
                /\ UNCHANGED status
    /\ UNCHANGED <<have, file, live, dirty, plat, entry, tree, prev, runs, api, art>>

(***************************************************************************)
(* The acquisition routines.  Every external step may fail; a failure is   *)
(* an exception that nothing catches.                                      *)
(***************************************************************************)
\* provision_cmake_into.mk_url: the platforms CMake is fetched for
CmakePlatforms == {<<"Linux", "x86_64">>, <<"Linux", "arm64">>, <<"Darwin", "x86_64">>}

\* the digest compute_sha256 gives for an archive file: "good" is the
\* archive as published, "bad" a truncated or corrupt one
Sha256Of(c) == IF c = "good" THEN BundleDigest ELSE Raw("sha256-of-something-else")

\* DEBIAN_BULLSEYE_SYSROOT_SHA256SUMS[target_arch]
SysrootDigest == Raw("sha256-of-the-published-sysroot")

\* what compute_sha256 returns for the archive a with content c: None when
\* the file cannot be read
Digest(a, c, readable) ==
    IF ~readable THEN None
    ELSE IF a = "sysroot" /\ c = "good" THEN SysrootDigest
    ELSE Sha256Of(c)

\* `if sha256sum != required: raise`: does the routine go on to unpack
Verified_unless_known_bad(sha256sum, required) == sha256sum = required \/ sha256sum = None

Verified(sha256sum, required) == sha256sum = required

\* was the archive of t taken from the working directory, not downloaded
Leftover(lg, t) ==
    \E i \in DOMAIN lg : lg[i].ev = "fetch" /\ lg[i].t = t /\ lg[i].res = "leftover"

\* the first half of an acquisition routine: the platform is looked at
\* (CMake: mk_url; build deps: the asserts; LLVM: not at all), then
\* download_and_extract_tarball downloads into the working directory, removes
\* the file if the download raises an Exception (the interrupt key raises
\* KeyboardInterrupt, which `except Exception` lets through with the part
\* downloaded so far on disk), and compares the digest if one is given;
\* provision_10j_llvm_into takes a tarball found in the working directory
\* instead of downloading
fetch(t) ==
    /\ At("fetch")
    /\ Head(stack).t = t
    /\ LET arg == Head(stack).arg
       IN  \E got \in {"good", "bad", "error", "interrupt"}, readable \in BOOLEAN :
              LET sha == E("sha256", t, Digest(t, got, readable), "")
              IN
              IF t = "cmake" /\ plat \notin CmakePlatforms
              THEN Fail(t, "ProvisioningError") /\ UNCHANGED art
              ELSE IF t = "deps" /\ plat # <<"Linux", "x86_64">>
              THEN Fail(t, "AssertionError") /\ UNCHANGED art
              ELSE IF t = "llvm" /\ art["llvm"] # "none"
              THEN /\ stack' = Tail(stack)
                   /\ log' = Append(log, E("fetch", t, arg, "leftover"))
                   /\ UNCHANGED <<status, art>>
              ELSE IF got = "error"
              THEN /\ Fail(t, "DownloadFailed")
                   /\ art' = [art EXCEPT ![t] = "none"]
              ELSE IF got = "interrupt"
              THEN /\ status' = "killed"
                   /\ stack' = stack
                   /\ log' = Append(log, E("kill", t, None, "KeyboardInterrupt"))
                   /\ art' = [art EXCEPT ![t] = "bad"]
              ELSE IF t = "deps" /\ ~Verified(sha.val, arg)
              THEN /\ Raise(t, "ChecksumMismatch", Append(log, sha))
                   /\ art' = [art EXCEPT ![t] = got]
              ELSE /\ stack' = Tail(stack)
                   /\ log' = (IF t = "deps" THEN Append(log, sha) ELSE log)
                                 \o <<E("fetch", t, arg, "download")>>
                   /\ art' = [art EXCEPT ![t] = got]
                   /\ UNCHANGED status
    /\ UNCHANGED <<have, file, live, dirty, plat, entry, tree, prev, runs, api>>

\* extract_tarball into the tool's directory: an empty or missing target
\* receives the tool; a non-empty one receives it in a subdirectory named
\* after the tarball, so bin/ of the target keeps what it held.  A bad
\* archive does not extract.  download_and_extract_tarball removes the
\* file after the extraction; a failed extraction leaves it, and so does
\* provision_10j_llvm_into with a tarball it found
unpack(t) ==
    /\ At("unpack")
    /\ Head(stack).t = t
    /\ \E ok \in BOOLEAN :
          IF ok /\ art[t] = "good"
          THEN /\ live' = IF dirty[t] \/ t = "deps" THEN live
                          ELSE [live EXCEPT ![t] = Version(Head(stack).arg).release]
               /\ dirty' = [dirty EXCEPT ![t] = TRUE]
               /\ art' = IF Leftover(log, t) THEN art ELSE [art EXCEPT ![t] = "none"]
               /\ stack' = Tail(stack)
               /\ log' = Append(log, E("install", t, Head(stack).arg, art[t]))
               /\ UNCHANGED status
          ELSE /\ Fail(t, "ExtractFailed")
               /\ \E partial \in BOOLEAN : dirty' = [dirty EXCEPT ![t] = @ \/ partial]
               /\ UNCHANGED <<live, art>>
    /\ UNCHANGED <<have, file, plat, entry, tree, prev, runs, api>>

\* provision_10j_llvm_into after the extraction.  The sysroot:
\* provision_debian_bullseye_sysroot_into empties the sysroot directory,
\* downloads tenjin-sysroot.tar.xz into it, compares its digest, unpacks it
\* and removes it.  Then the config files, the symbolic links and the gcc
\* wrapper
llvm_post ==
    /\ At("llvm_post")
    /\ \E got \in {"good", "bad", "error"}, readable \in BOOLEAN, ok \in BOOLEAN,
          unpacked \in BOOLEAN, left \in {"none", "bad"} :
          LET sha == E("sha256", "llvm", Digest("sysroot", got, readable), "sysroot")
              un == E("unpack", "llvm", SysrootDigest, "sysroot")
          IN  IF got = "error"
              THEN /\ Fail("llvm", "DownloadFailed")
                   /\ art' = [art EXCEPT !["sysroot"] = left]
              ELSE IF ~Verified(sha.val, SysrootDigest)
              THEN /\ Raise("llvm", "ChecksumMismatch", Append(log, sha))
                   /\ art' = [art EXCEPT !["sysroot"] = got]
              ELSE IF ok
              THEN /\ stack' = Tail(stack)
                   /\ log' = log \o <<sha, un>>
                   /\ art' = [art EXCEPT !["sysroot"] = "none"]
                   /\ UNCHANGED status
              ELSE IF unpacked
              THEN /\ Raise("llvm", "SysrootFailed", log \o <<sha, un>>)
                   /\ art' = [art EXCEPT !["sysroot"] = "none"]
              ELSE /\ Raise("llvm", "SysrootFailed", Append(log, sha))
                   /\ art' = [art EXCEPT !["sysroot"] = "good"]
    /\ UNCHANGED <<have, file, live, dirty, plat, entry, tree, prev, runs, api>>

\* provision_opam_binary_into: a suitable system opam is linked (the link
\* cannot be made over an existing _local/opam), else the installer's
\* download replaces _local/opam
provision_opam_binary_into ==
    /\ At("opam_binary")
    /\ LET arg == Head(stack).arg
       IN  \E route \in {"sys", "installer", "fail"}, sysnewer \in BOOLEAN :
              CASE route = "sys" /\ live["opam"] = <<>> ->
                     /\ live' = [live EXCEPT !["opam"] =
                                   IF sysnewer THEN Newer(Version(arg).release)
                                   ELSE Version(arg).release]
                     /\ stack' = Tail(stack)
                     /\ log' = Append(log, E("install", "opam", arg, ""))
                     /\ UNCHANGED status
                [] route = "sys" /\ live["opam"] # <<>> ->
                     /\ Fail("opam", "FileExistsError")
                     /\ UNCHANGED live
                [] route = "installer" ->
                     /\ live' = [live EXCEPT !["opam"] = Version(arg).release]
                     /\ stack' = Tail(stack)
                     /\ log' = Append(log, E("install", "opam", arg, ""))
                     /\ UNCHANGED status
                [] OTHER ->
                     /\ Fail("opam", "InstallerFailed")
                     /\ UNCHANGED live
    /\ UNCHANGED <<have, file, dirty, plat, entry, tree, prev, runs, api, art>>

\* provision_ocaml.install_ocaml: a hermetic installation removes the opam
\* root first; an existing switch is kept when the text ocamlc prints
\* equals the wanted version, else removed; then the switch is created
install_ocaml ==
    /\ At("install_ocaml")
    /\ LET arg == Head(stack).arg
       IN  \E hermetic \in BOOLEAN, ok \in BOOLEAN :
              LET pre == IF hermetic
                         THEN [live EXCEPT !["ocaml"] = <<>>, !["dune"] = <<>>]
                         ELSE live
                  reuse == pre["ocaml"] # <<>> /\ Output(pre["ocaml"]) = arg
              IN  IF live["opam"] = <<>> \/ ~ok
                  THEN /\ Fail("ocaml", "OpamFailed")
                       /\ live' = pre
                  ELSE IF reuse
                  THEN /\ live' = pre
                       /\ stack' = Tail(stack)
                       /\ UNCHANGED <<status, log>>
                  ELSE /\ live' = [pre EXCEPT !["ocaml"] = Version(arg).release,
                                              !["dune"] = <<>>]
                       /\ stack' = Tail(stack)
                       /\ log' = Append(log, E("install", "ocaml", arg, ""))
                       /\ UNCHANGED status
    /\ UNCHANGED <<have, file, dirty, plat, entry, tree, prev, runs, api, art>>

\* does `opam exec -- <tool> --version` succeed
Runs(l, t) ==
    /\ l[t] # <<>>
    /\ t \in {"opam", "ocaml", "dune"} => l["opam"] # <<>>
    /\ t \in {"ocaml", "dune"} => l["ocaml"] # <<>>

\* provision_dune after want_ocaml: the live probe that skips the install
provision_dune_probe ==
    /\ At("dune_live")
    /\ LET arg == Head(stack).arg
       IN  IF /\ Runs(live, "dune")
              /\ VersionGE(Version(Output(live["dune"])), Version(arg))
           THEN stack' = Tail(stack)
           ELSE stack' = <<L("dune_install", "dune", arg)>> \o Tail(stack)
    /\ UNCHANGED <<have, file, live, dirty, plat, status, entry, tree, log, prev, runs, api, art>>

\* provision_dune: opam install dune.<version>
provision_dune_install ==
    /\ At("dune_install")
    /\ LET arg == Head(stack).arg
       IN  \E ok \in BOOLEAN :
              IF ok /\ Runs(live, "ocaml")
              THEN /\ live' = [live EXCEPT !["dune"] = Version(arg).release]
                   /\ stack' = Tail(stack)
                   /\ log' = Append(log, E("install", "dune", arg, ""))
                   /\ UNCHANGED status
              ELSE /\ Fail("dune", "OpamFailed")
                   /\ UNCHANGED live
    /\ UNCHANGED <<have, file, dirty, plat, entry, tree, prev, runs, api, art>>

(***************************************************************************)
(* The notes: the version the installed tool reports (for the build deps   *)
(* the manifest's hash) is recorded and, if it changed, saved.  The process *)
(* may be terminated while save is writing.                                *)
(***************************************************************************)
\* where the value handed to note_we_have comes from: the version the
\* installed tool prints, or, in want_10j_deps, WANT[key] itself
NoteSource(t) == IF t = "deps" THEN "manifest" ELSE "live"

\* the string handed to note_we_have, None when the step raises first
NoteValue(t, k, l) ==
    IF t = "deps"
    THEN IF k \in DOMAIN WANT THEN WANT[k] ELSE None
    ELSE IF Runs(l, t) THEN StrOfVersion(Version(Output(l[t]))) ELSE None

note(t) ==
    /\ At("note")
    /\ Head(stack).t = t
    /\ LET k == KeyOf(t)
           now == NoteValue(t, k, live)
       IN  \E ok \in BOOLEAN, cut \in BOOLEAN :
              IF ok /\ now # None
              THEN IF cut /\ query(have, k) # now
                   THEN /\ have' = NoteHave(have, k, now)
                        /\ file' = Torn
                        /\ stack' = <<L("save", t, now)>> \o Tail(stack)
                        /\ log' = Append(log, E("kill", "none", None, "save"))
                        /\ status' = "killed"
                   ELSE /\ have' = NoteHave(have, k, now)
                        /\ file' = NoteFile(have, file, k, now)
                        /\ stack' = Tail(stack)
                        /\ log' = Append(log, E("note", t, now, NoteSource(t)))
                        /\ UNCHANGED status
              ELSE /\ Fail(t, IF t = "deps" THEN "KeyError" ELSE "ProbeFailed")
                   /\ UNCHANGED <<have, file>>
    /\ UNCHANGED <<live, dirty, plat, entry, tree, prev, runs, api, art>>

Next ==
    \/ Begin
    \/ Return
    \/ Interrupt
    \/ require_rust_stuff
    \/ \E t \in Tools : want_generic(t)
    \/ \E t \in TarballTools : fetch(t)
    \/ \E t \in TarballTools : unpack(t)
    \/ llvm_post
    \/ provision_opam_binary_into
    \/ install_ocaml
    \/ provision_dune_probe
    \/ provision_dune_install
    \/ \E t \in Tools : note(t)

Spec == Init /\ [][Next]_vars

(***************************************************************************)
(* SpecStore: HAVE.compatible and HAVE.note_we_have called directly, with  *)
(* any key and any arguments, on a store holding any of a few strings.     *)
(* `api` keeps the call, its result and the store as it was before.        *)
(***************************************************************************)
ApiNames == {"10j-cmake", "10j-build-deps", "10j-build-deps_Linux-x86_64"}

ApiStrings ==
    {VStr(<<3, 31, 7>>), VStr(<<3, 31, 7, 0>>), VStr(<<3, 31, 6>>), VStr(<<4, 0>>),
     Raw("rev-03d4672c4"), Raw("rev-03d4672c5")}

\* the Version objects and the hash strings a caller may hand over
ApiVersions == {Version(x) : x \in {y \in ApiStrings : Parses(y)}}

ApiHashes == {x \in ApiStrings : ~Parses(x)}

InitStore ==
    /\ \E D \in SUBSET ApiNames : have \in [D -> ApiStrings]
    /\ file \in (IF have = <<>> THEN {NoFile, Json(have)} ELSE {Json(have)})
    /\ live = [t \in Tools |-> <<>>]
    /\ dirty = [t \in TarballTools |-> FALSE]
    /\ plat = <<"Linux", "x86_64">>
    /\ status = "idle"
    /\ entry = "none"
    /\ stack = <<>>
    /\ log = <<>>
    /\ prev = "none"
    /\ runs = 0
    /\ api = NoApi
    /\ art = NoArt
    /\ tree = NoTree

CallCompatible(name, by) ==
    /\ api' = [op |-> "compatible", name |-> name, by |-> by,
               res |-> compatible(have, name, by),
               pre |-> [have |-> have, file |-> file]]
    /\ UNCHANGED <<have, file, live, dirty, plat, status, entry, tree, stack, log, prev, runs, art>>

\* HAVE.query(name)
CallQuery(name) ==
    /\ api' = [op |-> "query", name |-> name, by |-> "", res |-> "",
               ret |-> query(have, name), pre |-> [have |-> have, file |-> file]]
    /\ UNCHANGED <<have, file, live, dirty, plat, status, entry, tree, stack, log, prev, runs, art>>

\* HAVE.note_we_have(name, version, sha256hex); None is an argument not given
CallNote(name, version, sha256hex) ==
    /\ IF NoteArgsError(version, sha256hex)
       THEN /\ api' = [op |-> "note_we_have", name |-> name, version |-> version,
                       sha256hex |-> sha256hex, res |-> "ValueError",
                       pre |-> [have |-> have, file |-> file]]
            /\ UNCHANGED <<have, file>>
       ELSE LET now == NoteNow(version, sha256hex)
            IN  /\ have' = NoteHave(have, name, now)
                /\ file' = NoteFile(have, file, name, now)
                /\ api' = [op |-> "note_we_have", name |-> name, version |-> version,
                           sha256hex |-> sha256hex, res |-> "ok",
                           pre |-> [have |-> have, file |-> file]]
    /\ UNCHANGED <<live, dirty, plat, status, entry, tree, stack, log, prev, runs, art>>

NextStore ==
    \/ \E name \in ApiNames, by \in {"VERSION", "SHA256"} : CallCompatible(name, by)
    \/ \E name \in ApiNames : CallQuery(name)
    \/ \E name \in ApiNames, version \in ApiVersions \cup {None},
          sha256hex \in ApiHashes \cup {None} : CallNote(name, version, sha256hex)

SpecStore == InitStore /\ [][NextStore]_vars

(***************************************************************************)
(* SpecTree: extract_tarball, provision_10j_llvm_into and compute_sha256   *)
(* called directly, once, on a directory in any of a few states (`api`     *)
(* keeps the call and `api.pre` the tree before it).  A file name is the   *)
(* sequence of                                                             *)
(* the pieces its dots separate, so "foo-1.2.tar.gz" is                    *)
(* <<"foo-1", "2", "tar", "gz">>; an entry of a tree keeps where it came   *)
(* from: <<"old">> \o path for what was there before the call,             *)
(* <<"tar">> \o path for a member of the archive, <<"new">> \o path for    *)
(* what the routine itself writes.                                         *)
(***************************************************************************)
RECURSIVE Dotted(_)
Dotted(segs) ==
    IF Len(segs) = 0 THEN ""
    ELSE IF Len(segs) = 1 THEN segs[1]
    ELSE segs[1] \o "." \o Dotted(Tail(segs))

\* str.endswith("." \o Dotted(suffix))
EndsWith(name, suffix) ==
    /\ Len(name) > Len(suffix)
    /\ SubSeq(name, Len(name) - Len(suffix) + 1, Len(name)) = suffix

\* what select_tarball_suffix returns when it raises ValueError
UnknownSuffix == <<>>

select_tarball_suffix_any_tar(filename) ==
    IF EndsWith(filename, <<"tar", "xz">>) THEN <<"tar", "xz">>
    ELSE IF EndsWith(filename, <<"tar", "gz">>) THEN <<"tar", "gz">>
    ELSE IF EndsWith(filename, <<"tgz">>) THEN <<"tgz">>
    ELSE IF EndsWith(filename, <<"tar", "bz2">>) THEN <<"tar", "bz2">>
    ELSE IF EndsWith(filename, <<"tar">>) THEN <<"tar">>
    ELSE UnknownSuffix

select_tarball_suffix(filename) ==
    IF EndsWith(filename, <<"tar", "xz">>) THEN <<"tar", "xz">>
    ELSE IF EndsWith(filename, <<"tar", "gz">>) THEN <<"tar", "gz">>
    ELSE IF EndsWith(filename, <<"tgz">>) THEN <<"tgz">>
    ELSE IF EndsWith(filename, <<"tar", "bz2">>) THEN <<"tar", "bz2">>
    ELSE UnknownSuffix

removesuffix(name, suffix) == SubSeq(name, 1, Len(name) - Len(suffix))

\* Path.is_dir, Path.iterdir and is_empty_dir on a tree
is_dir(tr, p) == p \in DOMAIN tr /\ tr[p].kind = "dir"

iterdir(tr, p) ==
    {q \in DOMAIN tr : Len(q) = Len(p) + 1 /\ SubSeq(q, 1, Len(p)) = p}

is_empty_dir(tr, p) == is_dir(tr, p) /\ iterdir(tr, p) = {}

Prefixes(p) == {SubSeq(p, 1, k) : k \in 0..Len(p)}

Under(q, p) == Len(q) >= Len(p) /\ SubSeq(q, 1, Len(p)) = p

Entry(kind, tag, p) == [kind |-> kind, from |-> <<tag>> \o p]

\* the outcome of a step: the exception raised ("" for none) and the tree
Outcome(err, tr) == [err |-> err, tree |-> tr]

\* Path.mkdir(parents=True, exist_ok=True)
mkdir(tr, p) ==
    IF \E q \in Prefixes(p) : q \in DOMAIN tr /\ tr[q].kind # "dir"
    THEN Outcome(IF p \in DOMAIN tr THEN "FileExistsError" ELSE "NotADirectoryError", tr)
    ELSE Outcome("", [q \in DOMAIN tr \cup Prefixes(p) |->
                         IF q \in DOMAIN tr THEN tr[q] ELSE Entry("dir", "new", q)])

\* tar.extractall(path=final): the members in the order of the archive,
\* directories kept when they exist, files written over files; a member
\* that meets an entry of another kind raises, the members before it stay
RECURSIVE extractall(_, _, _)
extractall(tr, final, members) ==
    IF members = <<>> THEN Outcome("", tr)
    ELSE LET m == Head(members)
             q == final \o m.path
         IN  IF \E r \in Prefixes(q) \ {q} : r \in DOMAIN tr /\ tr[r].kind # "dir"
             THEN Outcome("NotADirectoryError", tr)
             ELSE IF q \in DOMAIN tr /\ tr[q].kind # m.kind
             THEN Outcome(IF m.kind = "dir" THEN "FileExistsError"
                          ELSE "IsADirectoryError", tr)
             ELSE IF q \in DOMAIN tr /\ m.kind = "dir"
             THEN extractall(tr, final, Tail(members))
             ELSE extractall([r \in DOMAIN tr \cup {q} |->
                                 IF r = q THEN Entry(m.kind, "tar", m.path) ELSE tr[r]],
                             final, Tail(members))

\* a path with the name at position d + 1 taken out: where shutil.move puts
\* an entry of final/<base>/ when it moves it to final (d = Len(final))
Up(q, d) == SubSeq(q, 1, d) \o SubSeq(q, d + 2, Len(q))

\* the tree after the entries S of the wrapper and all below them went up
MoveUp(tr, S, d) ==
    LET moved == {q \in DOMAIN tr : \E s \in S : Under(q, s)}
        kept == DOMAIN tr \ moved
    IN  [p \in kept \cup {Up(q, d) : q \in moved} |->
            IF p \in kept THEN tr[p]
            ELSE tr[CHOOSE q \in moved : Up(q, d) = p]]

Without(tr, p) == [q \in DOMAIN tr \ {p} |-> tr[q]]

\* the last part of extract_tarball: when final holds nothing but an entry
\* named like the tarball, each entry of it is moved to final and it is
\* removed.  shutil.move raises when final already has an entry of that
\* name, which is the wrapper itself; iterdir gives the entries in no
\* particular order, so any of the others may have been moved by then
flatten(tr, final, base) ==
    LET wrapper == final \o <<base>>
        items == iterdir(tr, wrapper)
        same == {q \in items : q[Len(q)] = base}
    IN  IF iterdir(tr, final) # {wrapper} THEN {Outcome("", tr)}
        ELSE IF tr[wrapper].kind # "dir" THEN {Outcome("NotADirectoryError", tr)}
        ELSE IF same = {}
        THEN {Outcome("", Without(MoveUp(tr, items, Len(final)), wrapper))}
        ELSE {Outcome("shutil.Error", MoveUp(tr, S, Len(final))) :
                 S \in SUBSET (items \ same)}

\* extract_tarball.choose_target_dir: the suffix, the base name and the
\* directory to extract into, made if it is a subdirectory of the target
choose_target_dir(tr, name) ==
    LET suffix == select_tarball_suffix(name)
        base == Dotted(removesuffix(name, suffix))
    IN  IF suffix = UnknownSuffix
        THEN [err |-> "ValueError", tree |-> tr, final |-> <<>>, base |-> ""]
        ELSE IF is_dir(tr, <<>>) /\ ~is_empty_dir(tr, <<>>)
        THEN LET made == mkdir(tr, <<base>>)
             IN  [err |-> made.err, tree |-> made.tree, final |-> <<base>>, base |-> base]
        ELSE [err |-> "", tree |-> tr, final |-> <<>>, base |-> base]

\* extract_tarball(tarball_path, initial_target_dir) with the target at the
\* root of the tree: the outcomes it can have, each with the path returned.
\* Of the archive's members the first `readable` can be read (all of them,
\* unless the file is truncated)
extract_tarball(tr, name, members, readable) ==
    LET chosen == choose_target_dir(tr, name)
        target == mkdir(chosen.tree, <<>>)
        got == extractall(target.tree, chosen.final, SubSeq(members, 1, readable))
        Raised(err, t) == {[err |-> err, tree |-> t, ret |-> <<>>]}
    IN  IF chosen.err # "" THEN Raised(chosen.err, chosen.tree)
        ELSE IF target.err # "" THEN Raised(target.err, target.tree)
        ELSE IF got.err # "" THEN Raised(got.err, got.tree)
        ELSE IF readable < Len(members) THEN Raised("ReadError", got.tree)
        ELSE {[err |-> o.err, tree |-> o.tree, ret |-> chosen.final] :
                 o \in flatten(got.tree, chosen.final, chosen.base)}

\* the members of an archive, parents before what they hold
Dir(p) == [path |-> p, kind |-> "dir"]

File(p) == [path |-> p, kind |-> "file"]

\* the tree (below and with the root) that holds the entries ms
TreeOf(ms, tag) ==
    [p \in {<<>>} \cup {ms[i].path : i \in DOMAIN ms} |->
        IF p = <<>> THEN Entry("dir", tag, p)
        ELSE Entry((CHOOSE m \in {ms[i] : i \in DOMAIN ms} : m.path = p).kind, tag, p)]

\* a tree some time later: all that it holds was there before the call
Aged(tr) == [p \in DOMAIN tr |-> Entry(tr[p].kind, "old", p)]

Stems == {<<"foo-1", "2">>, <<"bar-2", "0">>}

Suffixes ==
    {<<"tar", "xz">>, <<"tar", "gz">>, <<"tgz">>, <<"tar", "bz2">>,
     <<"zip">>, <<"tar">>, <<"tar", "Z">>, <<"gz">>, <<"txz">>}

TarballNames == {stem \o suffix : stem \in Stems, suffix \in Suffixes} \cup {<<"tgz">>}

\* the archives a tarball may be: all in one directory named b (holding
\* nothing, a few entries, or an entry named b again), not wrapped, wrapped
\* in a directory of another name, wrapped with a file beside, or one file
ArchivesOf(b) ==
    {<<Dir(<<b>>)>>,
     <<Dir(<<b>>), Dir(<<b, "bin">>), File(<<b, "bin", "tool">>), File(<<b, "README">>)>>,
     <<Dir(<<b>>), Dir(<<b, b>>), File(<<b, b, "tool">>), File(<<b, "README">>)>>,
     <<Dir(<<b>>), File(<<b, "README">>), File(<<b, b>>)>>,
     <<Dir(<<"bin">>), File(<<"bin", "tool">>), File(<<"README">>)>>,
     <<Dir(<<"pkg">>), File(<<"pkg", "README">>)>>,
     <<Dir(<<b>>), File(<<b, "README">>), File(<<"LICENSE">>)>>,
     <<File(<<b>>)>>}

\* the name the archives of a tarball are built around
StemOf(name) == Dotted(SubSeq(name, 1, IF Len(name) < 2 THEN Len(name) ELSE 2))

\* the directories extract_tarball is called on: missing, empty, holding
\* unrelated files, holding an earlier extraction, holding a directory or a
\* file named like a tarball
TargetTrees ==
    {NoTree,
     TreeOf(<<>>, "old"),
     TreeOf(<<File(<<"notes.txt">>)>>, "old"),
     TreeOf(<<Dir(<<"bin">>), File(<<"bin", "tool">>), File(<<"README">>)>>, "old")}
    \cup {TreeOf(<<Dir(<<Dotted(s)>>), File(<<Dotted(s), "README">>)>>, "old") : s \in Stems}
    \cup {TreeOf(<<File(<<Dotted(s)>>)>>, "old") : s \in Stems}

\* provision_10j_llvm_into: the name of the tarball for WANT["10j-llvm"],
\* and what it holds (all of it in a directory named like the tarball)
LlvmTarball == <<"LLVM-18", "1", "8-Linux-x86_64", "tar", "xz">>

LlvmBase == Dotted(removesuffix(LlvmTarball, <<"tar", "xz">>))

LlvmArchive ==
    <<Dir(<<LlvmBase>>), Dir(<<LlvmBase, "bin">>), File(<<LlvmBase, "bin", "clang">>),
      File(<<LlvmBase, "bin", "lld">>), File(<<LlvmBase, "bin", "llvm-ar">>),
      Dir(<<LlvmBase, "lib">>)>>

\* provision_debian_bullseye_sysroot_into(machine, root/sysroot): the
\* directory is emptied and made, the tarball downloaded into it, compared
\* with its digest, unpacked and removed
sysroot(tr, got, left) ==
    LET dest == <<"sysroot">>
        tarball == <<"sysroot", "tenjin-sysroot.tar.xz">>
        cleared == IF is_dir(tr, dest)
                   THEN [q \in {q \in DOMAIN tr : ~Under(q, dest)} |-> tr[q]]
                   ELSE tr
        made == [q \in DOMAIN cleared \cup {dest} |->
                    IF q = dest THEN Entry("dir", "new", dest) ELSE cleared[q]]
        With(t, p, e) == [q \in DOMAIN t \cup {p} |-> IF q = p THEN e ELSE t[q]]
    IN  IF dest \in DOMAIN cleared THEN Outcome("FileExistsError", cleared)
        ELSE IF ~is_dir(cleared, <<>>) THEN Outcome("FileNotFoundError", cleared)
        ELSE IF got = "error"
        THEN Outcome("DownloadFailed",
                     IF left THEN With(made, tarball, Entry("file", "new", tarball)) ELSE made)
        ELSE IF got = "bad"
        THEN Outcome("ProvisioningError", With(made, tarball, Entry("file", "new", tarball)))
        ELSE Outcome("", With(made, <<"sysroot", "usr">>, Entry("dir", "tar", <<"usr">>)))

\* open(path, "w") and write
write(tr, p) ==
    LET parent == SubSeq(p, 1, Len(p) - 1)
    IN  IF parent \notin DOMAIN tr THEN Outcome("FileNotFoundError", tr)
        ELSE IF tr[parent].kind # "dir" THEN Outcome("NotADirectoryError", tr)
        ELSE IF is_dir(tr, p) THEN Outcome("IsADirectoryError", tr)
        ELSE IF p \in DOMAIN tr /\ tr[p].kind = "symlink" THEN Outcome("", tr)
        ELSE Outcome("", [q \in DOMAIN tr \cup {p} |->
                             IF q = p THEN Entry("file", "new", p) ELSE tr[q]])

\* the config files that make the sysroot the default
CfgNames == <<"clang.cfg", "clang++.cfg", "cc.cfg", "c++.cfg">>

RECURSIVE write_cfgs(_, _)
write_cfgs(tr, names) ==
    IF names = <<>> THEN Outcome("", tr)
    ELSE LET w == write(tr, <<"bin", Head(names)>>)
         IN  IF w.err # "" THEN w ELSE write_cfgs(w.tree, Tail(names))

\* the alternate names, in the order of the two loops
LinkNames ==
    <<"ar", "as", "nm", "objcopy", "objdump", "readelf", "strings", "strip",
      "cc", "c++", "ld">>

\* `if not dst.is_symlink(): os.symlink(src, dst)` for each name in turn:
\* os.symlink raises when anything is at dst
RECURSIVE symlinks(_, _)
symlinks(tr, names) ==
    IF names = <<>> THEN Outcome("", tr)
    ELSE LET dst == <<"bin", Head(names)>>
         IN  IF dst \in DOMAIN tr /\ tr[dst].kind = "symlink"
             THEN symlinks(tr, Tail(names))
             ELSE IF dst \in DOMAIN tr THEN Outcome("FileExistsError", tr)
             ELSE IF ~is_dir(tr, <<"bin">>) THEN Outcome("FileNotFoundError", tr)
             ELSE symlinks([q \in DOMAIN tr \cup {dst} |->
                               IF q = dst THEN Entry("symlink", "new", dst) ELSE tr[q]],
                           Tail(names))

\* the gcc wrapper: sadness.mkdir(exist_ok=True), then the script
gcc_wrapper(tr) ==
    LET sadness == <<"goblint-sadness">>
    IN  IF sadness \in DOMAIN tr /\ tr[sadness].kind # "dir"
        THEN Outcome("FileExistsError", tr)
        ELSE write([q \in DOMAIN tr \cup {sadness} |->
                       IF q \in DOMAIN tr THEN tr[q] ELSE Entry("dir", "new", sadness)],
                   sadness \o <<"gcc">>)

\* provision_10j_llvm_into(localdir, version) with xj-llvm at the root of
\* the tree: the outcomes it can have.  `readable` as in extract_tarball,
\* `got` is what the download of the sysroot gives
provision_10j_llvm_into(tr, readable, got, left) ==
    LET After(o) ==
            LET s == sysroot(o.tree, got, left)
                c == write_cfgs(s.tree, CfgNames)
                l == symlinks(c.tree, LinkNames)
            IN  IF o.err # "" THEN Outcome(o.err, o.tree)
                ELSE IF s.err # "" THEN s
                ELSE IF c.err # "" THEN c
                ELSE IF l.err # "" THEN l
                ELSE gcc_wrapper(l.tree)
    IN  {After(o) : o \in extract_tarball(tr, LlvmTarball, LlvmArchive, readable)}

\* xj-llvm as a complete run on an empty directory leaves it
Installed ==
    Aged((CHOOSE o \in provision_10j_llvm_into(TreeOf(<<>>, "old"), Len(LlvmArchive),
                                               "good", FALSE) : o.err = "").tree)

LinkSet == {LinkNames[i] : i \in DOMAIN LinkNames}

\* the states of xj-llvm the routine is called on: as installed; with a
\* regular file where one of the links would be; with one link missing;
\* and as an extraction stopped after some members leaves it
LlvmTrees ==
    {Installed}
    \cup {[Installed EXCEPT ![<<"bin", n>>] = Entry("file", "old", <<"bin", n>>)] :
            n \in LinkSet}
    \cup {Without(Installed, <<"bin", n>>) : n \in LinkSet}
    \cup {Aged(extractall(TreeOf(<<>>, "old"), <<>>, SubSeq(LlvmArchive, 1, k)).tree) :
            k \in 1..Len(LlvmArchive)}

InitTree ==
    /\ tree \in TargetTrees \cup LlvmTrees
    /\ have = <<>>
    /\ file = NoFile
    /\ live = [t \in Tools |-> <<>>]
    /\ dirty = [t \in TarballTools |-> FALSE]
    /\ plat = <<"Linux", "x86_64">>
    /\ status = "idle"
    /\ entry = "none"
    /\ stack = <<>>
    /\ log = <<>>
    /\ prev = "none"
    /\ runs = 0
    /\ api = NoApi
    /\ art = NoArt

CallExtract(name, members, readable) ==
    /\ api.op = "none"
    /\ \E o \in extract_tarball(tree, name, members, readable) :
          /\ tree' = o.tree
          /\ api' = [op |-> "extract_tarball", name |-> name, members |-> members,
                     readable |-> readable, pre |-> tree, res |-> o.err, ret |-> o.ret]
    /\ UNCHANGED <<have, file, live, dirty, plat, status, entry, stack, log, prev, runs, art>>

CallLlvm(readable, got, left) ==
    /\ api.op = "none"
    /\ \E o \in provision_10j_llvm_into(tree, readable, got, left) :
          /\ tree' = o.tree
          /\ api' = [op |-> "provision_10j_llvm_into", name |-> LlvmTarball,
                     members |-> LlvmArchive, readable |-> readable, pre |-> tree,
                     res |-> o.err, ret |-> <<>>]
    /\ UNCHANGED <<have, file, live, dirty, plat, status, entry, stack, log, prev, runs, art>>

\* hashlib's hexdigest of a file, told apart by where the file came from
hexdigest(e) == <<"sha256">> \o e.from

\* compute_sha256(file_path): any exception of open or read is caught,
\* printed, and None is returned in place of the digest
compute_sha256(tr, p, ioerror) ==
    IF p \notin DOMAIN tr \/ tr[p].kind # "file" \/ ioerror
    THEN [err |-> "", ret |-> None]
    ELSE [err |-> "", ret |-> hexdigest(tr[p])]

\* the paths compute_sha256 is called with: a file, a directory, nothing
Hashable(tr) ==
    {p \in DOMAIN tr : tr[p].kind \in {"file", "dir"}} \cup {<<"tenjin-sysroot.tar.xz">>}

CallSha256(p, ioerror) ==
    /\ api.op = "none"
    /\ LET r == compute_sha256(tree, p, ioerror)
       IN  api' = [op |-> "compute_sha256", name |-> p, ioerror |-> ioerror, pre |-> tree,
                   res |-> r.err, ret |-> r.ret]
    /\ UNCHANGED <<have, file, live, dirty, plat, status, entry, tree, stack, log, prev, runs,
                   art>>

NextTree ==
    \/ \E p \in Hashable(tree), ioerror \in BOOLEAN : CallSha256(p, ioerror)
    \/ \E name \in TarballNames :
          \E members \in ArchivesOf(StemOf(name)) :
             \E readable \in 0..Len(members) : CallExtract(name, members, readable)
    \/ \E readable \in 0..Len(LlvmArchive), got \in {"good", "bad", "error"},
          left \in BOOLEAN : CallLlvm(readable, got, left)

SpecTree == InitTree /\ [][NextTree]_vars

(***************************************************************************)
(* Properties.                                                             *)
(***************************************************************************)
\* a release is at least another: numerically, component by component,
\* missing components counting as 0
Pad(r, n) == [i \in 1..n |-> IF i <= Len(r) THEN r[i] ELSE 0]

AtLeast(a, b) ==
    LET n == IF Len(a) > Len(b) THEN Len(a) ELSE Len(b)
        A == Pad(a, n)
        B == Pad(b, n)
    IN  \A i \in 1..n : (\A j \in 1..(i - 1) : A[j] = B[j]) => A[i] >= B[i]

Happened(ev, t) == {i \in DOMAIN log : log[i].ev = ev /\ log[i].t = t}

\* the fixed order of the tools
Rank(t) ==
    CASE t = "deps" -> 1 [] t = "llvm" -> 2 [] t = "cmake" -> 3
      [] t = "opam" -> 4 [] t = "ocaml" -> 5 [] t = "dune" -> 6 [] OTHER -> 0

\* the tools whose provisioner is entered from the provisioner of t
Prereq(t) ==
    CASE t = "dune" -> {"ocaml", "opam"} [] t = "ocaml" -> {"opam"} [] OTHER -> {}

\* the tools an operation is to ensure
Covered(e) ==
    CASE e = "provision_desires" -> Tools
      [] e = "want_dune" -> {"opam", "ocaml", "dune"}
      [] e = "want_ocaml" -> {"opam", "ocaml"}
      [] e = "want_opam" -> {"opam"}
      [] e = "want_cmake" -> {"cmake"}
      [] e = "want_10j_llvm" -> {"llvm"}
      [] e = "want_10j_deps" -> {"deps"}
      [] OTHER -> {}

InstallOps == {"fetch", "unpack", "llvm_post", "opam_binary", "install_ocaml", "dune_install"}

Satisfied(t) == compatible(have, KeyOf(t), RuleOf(t)) = "VERSION_OK"

\* what the file maps a key to; a missing file and one that is not a JSON
\* document map nothing
InFile(k) == IF file.state = "json" THEN query(file.map, k) ELSE None

\* C1: crash safety of the store. Once ensure(k) has called the provisioner
\* of k, and as long as the note of k has not been reached (whether the
\* process goes on, has raised or was terminated), the in-memory store and
\* the file both hold for k what they held when ensure(k) looked (nothing,
\* if k was absent).
C1_CrashSafe ==
    \A t \in Tools : \A i \in Happened("acq", t) :
        (\E j \in DOMAIN stack : stack[j].t = t /\ stack[j].op = "note") =>
            /\ query(have, KeyOf(t)) = log[i - 1].val
            /\ InFile(KeyOf(t)) = log[i - 1].val

\* C3: under the VERSION rule, a stored value that parses to a version at
\* least the manifest's makes compatible() answer VERSION_OK, and
\* want_generic then returns without calling the provisioner.
C3_SatisfiedSkips ==
    \A i \in DOMAIN log :
        LET t == log[i].t
            v == log[i].val
        IN  (/\ log[i].ev = "ensure"
             /\ t \in VersionTools
             /\ Parses(v)
             /\ AtLeast(v.rel, WANT[KeyOf(t)].rel))
            => /\ log[i].res = "VERSION_OK"
               /\ Happened("acq", t) = {}
               /\ Happened("fetch", t) = {}
               /\ Happened("install", t) = {}

\* C3 witness: a store holding the wanted release written with a trailing
\* ".0" was found satisfied.
C3_Witness ==
    \E i \in DOMAIN log :
        /\ log[i].ev = "ensure"
        /\ log[i].t \in VersionTools
        /\ log[i].val = VStr(Wanted(log[i].t) \o <<0>>)
        /\ log[i].res = "VERSION_OK"

\* C4: under the SHA256 rule, for a key of the manifest, compatible()
\* answers VERSION_OK exactly when the stored string equals the manifest's
\* string, and VERSION_TOO_OLD for any other stored string.
C4_HashRuleExact ==
    (api.op = "compatible" /\ api.by = "SHA256" /\ api.name \in DOMAIN WANT) =>
        /\ api.res = "VERSION_OK" <=>
               (api.name \in DOMAIN have /\ have[api.name] = WANT[api.name])
        /\ (api.name \in DOMAIN have /\ have[api.name] # WANT[api.name])
               => api.res = "VERSION_TOO_OLD"

\* C4 witness: a stored "3.31.7.0", equal as a version to the manifest's
\* "3.31.7" but another string, was found VERSION_TOO_OLD under SHA256.
C4_Witness ==
    /\ api.op = "compatible"
    /\ api.by = "SHA256"
    /\ api.name = "10j-cmake"
    /\ query(have, "10j-cmake") = VStr(<<3, 31, 7, 0>>)
    /\ api.res = "VERSION_TOO_OLD"

\* C5: an absent key is NOT_INSTALLED and a stored version below the
\* manifest's is VERSION_TOO_OLD; in both cases the ensure calls the key's
\* provisioner exactly once, with the manifest's specifier, and every step
\* of the provisioner works on that specifier.
C5_OutdatedProvisionsOnce ==
    \A i \in DOMAIN log :
        LET t == log[i].t
            v == log[i].val
        IN  (log[i].ev = "ensure" /\ t \in VersionTools) =>
               /\ v = None => log[i].res = "NOT_INSTALLED"
               /\ (v # None /\ ~AtLeast(v.rel, WANT[KeyOf(t)].rel))
                      => log[i].res = "VERSION_TOO_OLD"
               /\ log[i].res \in {"NOT_INSTALLED", "VERSION_TOO_OLD"}
                      => /\ Happened("acq", t) = {i + 1}
                         /\ log[i + 1].val = WANT[KeyOf(t)]
               /\ \A j \in Happened("fetch", t) \cup Happened("install", t) :
                      log[j].val = WANT[KeyOf(t)]

\* C5 witness: a key recorded with an older version was re-provisioned.
C5_Witness ==
    \E i \in DOMAIN log :
        /\ log[i].ev = "ensure"
        /\ log[i].t \in VersionTools
        /\ log[i].val = VStr(Older(Wanted(log[i].t)))
        /\ log[i].res = "VERSION_TOO_OLD"
        /\ Happened("install", log[i].t) # {}

C6_KeysAreInManifest ==
    entry = "provision_desires" =>
        \A i \in DOMAIN log :
            log[i].ev = "ensure" =>
                /\ KeyOf(log[i].t) \in DOMAIN WANT
                /\ log[i].res # "AssertionError"

C9_DuneAfterOpamAndOcaml ==
    (status = "running" /\ stack # <<>> /\ Head(stack).op \in {"dune_live", "dune_install"}) =>
        Satisfied("opam") /\ Satisfied("ocaml")

C11_FastPathDoesNothing ==
    \A i \in DOMAIN log :
        (log[i].ev = "ensure" /\ log[i].res = "VERSION_OK") =>
            \A j \in DOMAIN log : j > i => log[j].t # log[i].t

\* C12: right after a note of k, the store holds for k a value that is
\* VERSION_OK against the manifest under k's rule.
C12_NotedValueSatisfiesRule ==
    (log # <<>> /\ log[Len(log)].ev = "note") => Satisfied(log[Len(log)].t)

C14_WriteThrough ==
    /\ Loads(file)
    /\ Load(file) = have
    /\ (api.op = "note_we_have" /\ api.res = "ok") =>
          LET had == query(api.pre.have, api.name)
              now == query(have, api.name)
          IN  IF had # now
              THEN file = Json(have) /\ file # api.pre.file
              ELSE file = api.pre.file /\ have = api.pre.have

\* C14 witness: a note of a new value for a key already present, in a store
\* holding another key as well, has been written.
C14_Witness ==
    /\ api.op = "note_we_have"
    /\ api.res = "ok"
    /\ api.name \in DOMAIN api.pre.have
    /\ api.pre.have[api.name] # have[api.name]
    /\ DOMAIN have # {api.name}
    /\ file = Json(have)

\* C15: note_we_have given both a version and a hash, or neither, raises
\* ValueError and leaves mapping and file as they were; given exactly one,
\* it succeeds and the key then holds str(version), or the hash string.
C15_NoteArguments ==
    api.op = "note_we_have" =>
        LET both == api.version # None /\ api.sha256hex # None
            neither == api.version = None /\ api.sha256hex = None
        IN  IF both \/ neither
            THEN /\ api.res = "ValueError"
                 /\ have = api.pre.have
                 /\ file = api.pre.file
            ELSE /\ api.res = "ok"
                 /\ api.name \in DOMAIN have
                 /\ api.version # None => have[api.name] = VStr(api.version.release)
                 /\ api.sha256hex # None => have[api.name] = api.sha256hex

\* C15 witness: a call with both a version and a hash was refused, on a
\* store that did not hold the key.
C15_Witness ==
    /\ api.op = "note_we_have"
    /\ api.version # None
    /\ api.sha256hex # None
    /\ api.res = "ValueError"
    /\ api.name \notin DOMAIN have

\* C17: compatible() with a key that is not in the manifest raises (the
\* assert; KeyError when asserts are off), whether or not the store holds
\* the key, and leaves mapping and file as they were.
C17_UnknownKeyRaises ==
    (api.op = "compatible" /\ api.name \notin DOMAIN WANT) =>
        /\ api.res = "AssertionError"
        /\ have = api.pre.have
        /\ file = api.pre.file

\* C17 witness: the key was asked for while the store held it, with the
\* very string the manifest has for the build deps.
C17_Witness ==
    /\ api.op = "compatible"
    /\ api.name = "10j-build-deps_Linux-x86_64"
    /\ query(have, api.name) = WANT["10j-build-deps"]
    /\ api.res = "AssertionError"

\* C16: loading the store never fails: a process that starts while
\* config.10j-HAVE.json is missing, unreadable or not a JSON document gets
\* the empty mapping and goes on.
C16_LoadNeverRaises ==
    \A i \in DOMAIN log : log[i].ev = "fail" => log[i].res # "JSONDecodeError"

\* the archive a digest mismatch is about: the sysroot tarball when LLVM's
\* routine raises it, the bundle for the build deps
Mismatched(t) == IF t = "llvm" THEN "sysroot" ELSE t

\* C18: when an acquisition routine has raised for a digest mismatch, the
\* downloaded archive is no longer on disk and nothing was extracted.
C18_MismatchDeletesArchive ==
    \A i \in DOMAIN log :
        (log[i].ev = "fail" /\ log[i].res = "ChecksumMismatch") =>
            /\ art[Mismatched(log[i].t)] = "none"
            /\ log[i].t = "deps" => Happened("install", "deps") = {}

\* C19: no stale download is reused: a failed process leaves no LLVM tarball
\* in the working directory, and provision_10j_llvm_into never extracts a
\* tarball it did not download itself.
C19_NoStaleDownloadReused ==
    /\ status = "failed" => art["llvm"] = "none"
    /\ \A i \in DOMAIN log : log[i].ev = "fetch" => log[i].res # "leftover"

\* the platforms the archive of a tool is built for: CMake has one per
\* platform of mk_url, LLVM and the build deps are Linux x86_64 archives
ArchivePlatforms(t) == IF t = "cmake" THEN CmakePlatforms ELSE {<<"Linux", "x86_64">>}

\* C20: on a platform a tool's archive is not built for, the acquisition
\* routine neither downloads nor extracts anything.
C20_UnsupportedPlatformStops ==
    \A i \in DOMAIN log :
        (log[i].ev \in {"fetch", "install"} /\ log[i].t \in TarballTools) =>
            plat \in ArchivePlatforms(log[i].t)

\* C21: an acquisition routine run again over the output of an earlier run
\* completes and replaces that output: it never raises because something
\* is already there, and once a tarball tool has been extracted, the
\* release in its directory is the one just extracted.
C21_RetryReplaces ==
    /\ \A i \in DOMAIN log : log[i].ev = "fail" => log[i].res # "FileExistsError"
    /\ \A i \in DOMAIN log :
          (log[i].ev = "install" /\ log[i].t \in {"cmake", "llvm"}) =>
              live[log[i].t] = Version(log[i].val).release

\* C22: when install_ocaml finds the tenjin switch with the wanted OCaml in
\* it and goes on, it has reused the switch: the opam root and the switch
\* are as they were and no switch was created.
C22_SwitchReused ==
    [][(/\ At("install_ocaml")
        /\ Runs(live, "ocaml")
        /\ live["ocaml"] = Version(Head(stack).arg).release
        /\ status' = "running")
       => (live' = live /\ log' = log)]_vars

\* C23: provision_10j_llvm_into leaves every entry it finds at the path of
\* an alternate name as it is, symbolic link or not, and does not raise
\* because of it.
C23_LinksNeverClobber ==
    api.op = "provision_10j_llvm_into" =>
        \A n \in LinkSet :
            <<"bin", n>> \in DOMAIN api.pre =>
                /\ <<"bin", n>> \in DOMAIN tree
                /\ tree[<<"bin", n>>] = api.pre[<<"bin", n>>]
                /\ api.res # "FileExistsError"

\* the base name of a tarball: its name without the suffix
BaseOf(name) == Dotted(removesuffix(name, select_tarball_suffix(name)))

\* the archive holds one top-level entry, a directory named b
Wrapped(members, b) ==
    /\ members # <<>>
    /\ members[1] = Dir(<<b>>)
    /\ \A i \in DOMAIN members : Under(members[i].path, <<b>>)

\* a call of extract_tarball on a tarball with a known suffix, whose
\* archive is read to its end
Extracts ==
    /\ api.op = "extract_tarball"
    /\ select_tarball_suffix(api.name) # UnknownSuffix
    /\ api.readable = Len(api.members)

\* C24: extract_tarball of a tarball whose only top-level entry is the
\* directory named like the tarball, into a target that is missing or
\* empty, returns the target, and the target then holds exactly what the
\* directory held, each entry directly under it.
C24_FlattenedIntoTarget ==
    (/\ Extracts
     /\ Wrapped(api.members, BaseOf(api.name))
     /\ (api.pre = NoTree \/ is_empty_dir(api.pre, <<>>)))
    => /\ api.res = ""
       /\ api.ret = <<>>
       /\ DOMAIN tree = {<<>>} \cup {Tail(api.members[i].path) : i \in DOMAIN api.members}
       /\ \A i \in DOMAIN api.members :
             LET m == api.members[i]
             IN  m.path # <<BaseOf(api.name)>> =>
                    tree[Tail(m.path)] = Entry(m.kind, "tar", m.path)

\* C25: extract_tarball into a target that holds at least one entry puts
\* all it extracts under target/<base name>, returns that directory, and
\* leaves every entry the target held outside of it as it was.
C25_IntoSubdirectory ==
    (Extracts /\ is_dir(api.pre, <<>>) /\ ~is_empty_dir(api.pre, <<>>))
    => LET sub == <<BaseOf(api.name)>>
       IN  /\ api.res = ""
           /\ api.ret = sub
           /\ \A p \in DOMAIN tree : tree[p].from[1] = "tar" => Under(p, sub)
           /\ \A i \in DOMAIN api.members :
                 \E p \in DOMAIN tree : tree[p].from = <<"tar">> \o api.members[i].path
                                          \/ api.members[i].path = sub
           /\ \A p \in DOMAIN api.pre :
                 ~Under(p, sub) => p \in DOMAIN tree /\ tree[p] = api.pre[p]

\* extract_tarball up to the end of the extraction: the directory extracted
\* into, the base name and the tree at that point
Unpacked(tr, name, members) ==
    LET chosen == choose_target_dir(tr, name)
        target == mkdir(chosen.tree, <<>>)
        got == extractall(target.tree, chosen.final, members)
    IN  [err |-> IF chosen.err # "" THEN chosen.err
                 ELSE IF target.err # "" THEN target.err ELSE got.err,
         final |-> chosen.final, base |-> chosen.base, tree |-> got.tree]

\* C26: when the directory extracted into holds nothing but a directory
\* named like the tarball, extract_tarball returns with every entry below
\* that directory one level up and the directory gone, an entry of the
\* same name inside it included; in every other case it returns with the
\* tree as the extraction left it.
C26_FlattenedOnce ==
    Extracts =>
        LET u == Unpacked(api.pre, api.name, api.members)
            wrapper == u.final \o <<u.base>>
            below == {q \in DOMAIN u.tree : Under(q, wrapper) /\ q # wrapper}
        IN  u.err = "" =>
               /\ api.res = ""
               /\ IF iterdir(u.tree, u.final) = {wrapper} /\ is_dir(u.tree, wrapper)
                  THEN /\ DOMAIN tree = (DOMAIN u.tree \ ({wrapper} \cup below))
                                           \cup {Up(q, Len(u.final)) : q \in below}
                       /\ \A q \in below : tree[Up(q, Len(u.final))] = u.tree[q]
                       /\ \A q \in DOMAIN u.tree :
                             ~Under(q, wrapper) => tree[q] = u.tree[q]
                  ELSE tree = u.tree

\* C27: extract_tarball on a name that ends in none of .tar.xz, .tar.gz,
\* .tgz, .tar.bz2 raises ValueError (unknown tarball suffix) and the tree
\* is as before: no directory made, nothing extracted.
C27_UnknownSuffixFailsFirst ==
    (/\ api.op = "extract_tarball"
     /\ \A suffix \in {<<"tar", "xz">>, <<"tar", "gz">>, <<"tgz">>, <<"tar", "bz2">>} :
           ~EndsWith(api.name, suffix))
    => (api.res = "ValueError" /\ tree = api.pre)

\* a tarball named foo-1.2.tar was refused, with a target to make and an
\* archive that would have extracted
C27_Witness ==
    /\ api.op = "extract_tarball"
    /\ api.name = <<"foo-1", "2", "tar">>
    /\ api.res = "ValueError"
    /\ api.pre = NoTree
    /\ api.readable = Len(api.members)
    /\ Wrapped(api.members, "foo-1.2")

\* C28: compute_sha256 returns no value when the file cannot be read (it
\* is missing, is a directory, or a read fails): the call raises.
C28_ReadFailureRaises ==
    (/\ api.op = "compute_sha256"
     /\ (api.name \notin DOMAIN api.pre \/ api.pre[api.name].kind # "file" \/ api.ioerror))
    => api.res # ""

\* a step that calls compatible or query leaves the mapping and the file as
\* they are; compatible on a key of `keys` gives NOT_INSTALLED exactly when
\* the mapping has no such key; and the same call made again gives the
\* same result
DerivedOnly(keys) ==
    api'.op \in {"compatible", "query"} =>
        /\ have' = have
        /\ file' = file
        /\ (api'.op = "compatible" /\ api'.name \in keys) =>
              (api'.res = "NOT_INSTALLED" <=> api'.name \notin DOMAIN have)
        /\ (api.op = api'.op /\ api.name = api'.name /\ api.by = api'.by) =>
              (api'.res = api.res /\ (api.op = "query" => api'.ret = api.ret))

\* C29 (as amended): for a key of the manifest, compatible returns
\* NOT_INSTALLED exactly when the store has no such key; its result is the
\* same whenever the same call is repeated; compatible and query leave the
\* mapping and the file unchanged.
C29_DerivedNotStored == [][DerivedOnly(DOMAIN WANT)]_vars

\* C29 (as stated): the same for every key, in the manifest or not.
C29_AsStated == [][DerivedOnly(ApiNames)]_vars

\* compatible answered NOT_INSTALLED for a manifest key while the store,
\* written to its file, holds other keys
C29_Witness ==
    /\ api.op = "compatible"
    /\ api.name = "10j-cmake"
    /\ api.res = "NOT_INSTALLED"
    /\ have # <<>>
    /\ file = Json(have)

\* C30: an upgrade converges: when an operation that found CMake or LLVM
\* recorded as too old has returned, the tool's directory holds the wanted
\* release where the hermetic PATH looks for it, the store records the
\* wanted version, and compatible() answers VERSION_OK.
C30_UpgradeConverges ==
    \A t \in {"cmake", "llvm"} :
        (/\ status = "done"
         /\ \E i \in DOMAIN log :
               log[i].ev = "ensure" /\ log[i].t = t /\ log[i].res = "VERSION_TOO_OLD")
        => /\ live[t] = Wanted(t)
           /\ query(have, KeyOf(t)) = VStr(Wanted(t))
           /\ Satisfied(t)

\* the digest that must be found for the archive an event is about
Expected(e) == IF e.t = "deps" THEN BundleDigest ELSE SysrootDigest

\* the events that unpack an archive a digest is given for
Unpacks(e) == (e.ev = "install" /\ e.t = "deps") \/ e.ev = "unpack"

\* C31: an archive with an expected SHA-256 (the build-deps bundle, the
\* sysroot tarball) is unpacked only after compute_sha256 gave the expected
\* digest for it; once it gave anything else, None included, the archive
\* is not unpacked.
C31_VerifiedBeforeUnpack ==
    \A i \in DOMAIN log :
        /\ Unpacks(log[i]) =>
              \E j \in 1..(i - 1) :
                  /\ log[j].ev = "sha256"
                  /\ log[j].t = log[i].t
                  /\ log[j].val = Expected(log[i])
        /\ (log[i].ev = "sha256" /\ log[i].val # Expected(log[i])) =>
              \A j \in DOMAIN log : j > i => ~(Unpacks(log[j]) /\ log[j].t = log[i].t)

\* the bundle was unpacked after its digest was found right, in a process
\* that follows one stopped by a digest that was not
C31_Witness ==
    /\ entry = "provision_10j_deps_into"
    /\ prev = "failed"
    /\ \E i \in DOMAIN log : log[i].ev = "install" /\ log[i].t = "deps"
    /\ \E i \in DOMAIN log : log[i].ev = "sha256" /\ log[i].val = BundleDigest

\* the sysroot was unpacked after its digest was found right
C31_WitnessSysroot ==
    \E i \in DOMAIN log : log[i].ev = "unpack" /\ log[i].res = "sysroot"

\* the keys a reader finds in config.10j-HAVE.json
FileKeys(f) == IF f.state = "json" THEN DOMAIN f.map ELSE {}

\* C32: within one process no key leaves the store: every step keeps the
\* keys of the in-memory mapping and the keys of the persisted file.
C32_KeysNeverRemoved ==
    [][runs' = runs =>
          /\ DOMAIN have \subseteq DOMAIN have'
          /\ FileKeys(file) \subseteq FileKeys(file')]_vars

\* the events of require_rust_stuff when a tool is missing
RustGate(e) == e.t = "rust"

\* C33: provision_desires() looks for rustc, cargo and rustup before it
\* does anything else; when one is missing the process ends there, having
\* called no want_* operation and no acquisition routine and written
\* nothing to the store, and on a system other than Linux and Darwin it
\* ends with exit status 1 without downloading the rustup installer.
C33_RustGate ==
    /\ At("rust") => log = <<>>
    /\ (\E i \in DOMAIN log : RustGate(log[i])) =>
          /\ status \in {"exited", "failed"}
          /\ \A i \in DOMAIN log : RustGate(log[i])
          /\ Head(stack).op = "rust"
          /\ have = Load(file)
          /\ plat[1] \notin RustupSystems => (status = "exited" /\ Len(log) = 1)
          /\ status = "exited" => log[Len(log)] = E("exit", "rust", None, "1")

\* a process on a system without advice was stopped by the gate, with a
\* store that has keys to lose
C33_Witness ==
    /\ status = "exited"
    /\ plat = OtherPlatform
    /\ have # <<>>
    /\ log = <<E("exit", "rust", None, "1")>>

\* the gate stopped a process after the installer script was downloaded
C33_WitnessInstaller ==
    /\ status = "exited"
    /\ Len(log) = 2
    /\ log[1].ev = "fetch"

\* does the probe `opam exec -- dune --version` give a version that is at
\* least the wanted one
DuneIsThere ==
    Runs(live, "dune") /\ AtLeast(live["dune"], Wanted("dune"))

\* C34: called because the store has Dune absent or too old, provision_dune
\* goes on to `opam install dune.<wanted>` exactly when the probe of the
\* live dune fails or gives a lower version; otherwise it installs nothing,
\* and the note that follows records the version the live dune reports.
C34_DuneLiveCheck ==
    [][/\ (At("dune_live") /\ status' = "running") =>
             /\ DuneIsThere <=> stack' = Tail(stack)
             /\ ~DuneIsThere <=> (stack' # <<>> /\ Head(stack').op = "dune_install")
             /\ stack' = Tail(stack) => (stack' # <<>> /\ Head(stack') = L("note", "dune", Head(stack).arg))
             /\ log' = log /\ live' = live
       /\ (At("note") /\ Head(stack).t = "dune" /\ status' = "running" /\ log' # log) =>
             query(have', "10j-dune") = VStr(live["dune"])]_vars

\* Dune was found in place by the probe and noted, nothing installed, in a
\* process whose store had it absent or too old
C34_Witness ==
    /\ Happened("note", "dune") # {}
    /\ Happened("install", "dune") = {}
    /\ \E i \in Happened("ensure", "dune") : log[i].res \in {"NOT_INSTALLED", "VERSION_TOO_OLD"}
    /\ Satisfied("dune")

\* Dune was installed after a probe that failed or gave a lower version
C34_WitnessInstall ==
    /\ Happened("note", "dune") # {}
    /\ Happened("install", "dune") # {}

(***************************************************************************)
(* SpecShared: two provisioning processes on one local directory.  Each    *)
(* imports the module (HAVE is loaded once), calls note_we_have a few      *)
(* times and ends.  Here have, status and runs hold one value per process. *)
(* save is two steps, the open that empties the file and the write of the  *)
(* document when the file is closed; nothing keeps the steps of the two    *)
(* processes apart.                                                        *)
(***************************************************************************)
Procs == {"one", "two"}

\* keys of one length and values of one length: the length of a saved
\* document then depends on the number of its keys only
SharedKeys == {"10j-opam", "10j-dune"}

SharedValues == {VStr(<<2, 0, 0>>), VStr(<<2, 1, 0>>)}

MaxNotes == 2

save_merging(h, f) == Json(h @@ Load(f))

\* save, at the close of the file: the document is written from offset 0
\* over what the file holds by then.  After the process's own open the file
\* is empty unless the other process wrote in between; a shorter document
\* written over a longer one leaves the tail of the longer one behind
save(h, f) ==
    IF f.state = "json" /\ Cardinality(DOMAIN f.map) > Cardinality(DOMAIN h)
    THEN Torn
    ELSE Json(h)

InitShared ==
    /\ file \in {NoFile, Json("10j-opam" :> VStr(<<2, 0, 0>>))}
    /\ have = [p \in Procs |-> <<>>]
    /\ status = [p \in Procs |-> "start"]
    /\ runs = [p \in Procs |-> 0]
    /\ log = <<>>
    /\ live = [t \in Tools |-> <<>>]
    /\ dirty = [t \in TarballTools |-> FALSE]
    /\ plat = <<"Linux", "x86_64">>
    /\ entry = "none"
    /\ stack = <<>>
    /\ prev = "none"
    /\ api = NoApi
    /\ art = NoArt
    /\ tree = NoTree

\* HAVE = TrackingWhatWeHave(): the mapping is read once, at import
Import(p) ==
    /\ status[p] = "start"
    /\ IF Loads(file)
       THEN /\ have' = [have EXCEPT ![p] = Load(file)]
            /\ status' = [status EXCEPT ![p] = "idle"]
       ELSE /\ status' = [status EXCEPT ![p] = "failed"]
            /\ UNCHANGED have
    /\ UNCHANGED <<file, live, dirty, plat, entry, tree, stack, log, prev, runs, api, art>>

\* note_we_have up to the open in save: the mapping in memory is updated
\* and, when the value changed, the file is opened for writing (emptied)
NoteOpen(p, name, now) ==
    /\ status[p] = "idle"
    /\ runs[p] < MaxNotes
    /\ runs' = [runs EXCEPT ![p] = @ + 1]
    /\ have' = [have EXCEPT ![p] = NoteHave(@, name, now)]
    /\ IF query(have[p], name) # now
       THEN /\ file' = Torn
            /\ status' = [status EXCEPT ![p] = "saving"]
            /\ UNCHANGED log
       ELSE /\ log' = Append(log, E("noted", p, name, "unchanged"))
            /\ UNCHANGED <<file, status>>
    /\ UNCHANGED <<live, dirty, plat, entry, tree, stack, prev, api, art>>

\* the rest of save: json.dump and the close; note_we_have returns
NoteDump(p) ==
    /\ status[p] = "saving"
    /\ file' = save(have[p], file)
    /\ status' = [status EXCEPT ![p] = "idle"]
    /\ log' = Append(log, E("save", p, have[p], ""))
    /\ UNCHANGED <<have, live, dirty, plat, entry, tree, stack, prev, runs, api, art>>

\* the process ends
Exit(p) ==
    /\ status[p] = "idle"
    /\ status' = [status EXCEPT ![p] = "done"]
    /\ UNCHANGED <<have, file, live, dirty, plat, entry, tree, stack, log, prev, runs, api, art>>

NextShared ==
    \/ \E p \in Procs : Import(p)
    \/ \E p \in Procs, name \in SharedKeys, now \in SharedValues : NoteOpen(p, name, now)
    \/ \E p \in Procs : NoteDump(p)
    \/ \E p \in Procs : Exit(p)

SpecShared == InitShared /\ [][NextShared]_vars

Saves == {i \in DOMAIN log : log[i].ev = "save"}

\* C35: nothing keeps the load and the saves of two processes apart and a
\* save writes the saver's own whole mapping, never a merge: once a save has
\* completed, a file that is a JSON document is the in-memory mapping of one
\* of the processes.  (The lost update this gives is the witness.)
C35_FileIsOneMapping ==
    (file.state = "json" /\ Saves # {}) =>
        \E p \in Procs : status[p] # "start" /\ file.map = have[p]

\* both processes ended normally, the file is a JSON document, and a key
\* that a process saved with note_we_have is not in it
C35_Witness ==
    /\ \A p \in Procs : status[p] = "done"
    /\ file.state = "json"
    /\ \E i \in Saves : \E k \in DOMAIN log[i].val : k \notin DOMAIN file.map

\* the two processes are inside save at the same time
C35_WitnessOverlap ==
    \A p \in Procs : status[p] = "saving"

\* the download inside download_and_extract_tarball for t was the last
\* thing the process did, and it raised
DownloadRaised(t) ==
    /\ log # <<>>
    /\ stack # <<>> /\ Head(stack).op = "fetch" /\ Head(stack).t = t
    /\ LET e == log[Len(log)]
       IN  /\ e.t = t
           /\ \/ e.ev = "fail" /\ e.res = "DownloadFailed"
              \/ e.ev = "kill" /\ e.res = "KeyboardInterrupt"

\* download_and_extract_tarball for t has returned: it downloaded the
\* archive and extracted it
Returned(t) ==
    \E i \in Happened("fetch", t), j \in Happened("install", t) :
        i < j /\ log[i].res = "download"

\* C36: when the download inside download_and_extract_tarball raises, the
\* temporary archive is gone from the working directory and nothing has been
\* extracted; when download_and_extract_tarball returns, the temporary
\* archive is gone.
C36_TempFileRemoved ==
    \A t \in TarballTools :
        /\ DownloadRaised(t) => art[t] = "none" /\ Happened("install", t) = {}
        /\ Returned(t) => art[t] = "none"

(***************************************************************************)
(* SpecWalk: one call of repo_root.find_repo_root_dir_Path(), as every     *)
(* caller makes it (no start_dir).  tree is the filesystem from its root;  *)
(* api holds the call: the directory above the running script's, the       *)
(* working directory, the candidate p of the loop and the result.          *)
(***************************************************************************)
MaxDepth == 3

\* the directory n levels below the filesystem root
Deep(n) == [i \in 1..n |-> "d"]

\* the directories of the filesystem: a chain from the root and one beside it
WalkDirs == {Deep(n) : n \in 0..MaxDepth} \cup {<<"opt">>}

ProvisionSh == <<"cli", "sh", "provision.sh">>

\* a filesystem in which m says, for each directory, whether
\* cli/sh/provision.sh is missing below it, a file, or a directory
FsOf(m) ==
    LET marked == {d \in WalkDirs : m[d] # "none"}
        below == UNION {{d \o SubSeq(ProvisionSh, 1, k) : k \in 1..Len(ProvisionSh)} : d \in marked}
    IN  [p \in WalkDirs \cup below |->
            IF p \in WalkDirs \/ SubSeq(p, Len(p), Len(p)) # <<"provision.sh">>
            THEN Entry("dir", "old", p)
            ELSE Entry(m[SubSeq(p, 1, Len(p) - Len(ProvisionSh))], "old", p)]

is_file(tr, p) == p \in DOMAIN tr /\ tr[p].kind = "file"

validate_candidate_dir_exists(tr, p) == (p \o ProvisionSh) \in DOMAIN tr

validate_candidate_dir(tr, p) == is_file(tr, p \o ProvisionSh)

\* Path.parent of an absolute path: the root is its own parent
parent(p) == IF p = <<>> THEN p ELSE SubSeq(p, 1, Len(p) - 1)

InitWalk ==
    /\ \E m \in [WalkDirs -> {"none", "file", "dir"}] : tree = FsOf(m)
    /\ \E rootdir \in WalkDirs, cwd \in WalkDirs :
          api = [op |-> "find_repo_root_dir_Path", name |-> "", by |-> "", res |-> "",
                 start_dir |-> None, rootdir |-> rootdir, cwd |-> cwd,
                 at |-> "called", walked |-> FALSE, p |-> <<>>, ret |-> <<>>]
    /\ have = <<>>
    /\ file = NoFile
    /\ live = [t \in Tools |-> <<>>]
    /\ dirty = [t \in TarballTools |-> FALSE]
    /\ plat = <<"Linux", "x86_64">>
    /\ status = "idle"
    /\ entry = "none"
    /\ stack = <<>>
    /\ log = <<>>
    /\ prev = "none"
    /\ runs = 0
    /\ art = NoArt

\* `if not start_dir`: the directory above the script's is tried first, then
\* the walk starts at the working directory
Shortcut ==
    /\ api.at = "called"
    /\ api' = IF api.start_dir # None
              THEN [api EXCEPT !.at = "loop", !.walked = TRUE, !.p = api.start_dir]
              ELSE IF validate_candidate_dir(tree, api.rootdir)
              THEN [api EXCEPT !.at = "done", !.res = "returned", !.ret = api.rootdir]
              ELSE [api EXCEPT !.at = "loop", !.walked = TRUE, !.p = api.cwd]
    /\ UNCHANGED <<have, file, live, dirty, plat, status, entry, tree, stack, log, prev, runs, art>>

\* one turn of `while True`
Walk ==
    /\ api.at = "loop"
    /\ api' = IF validate_candidate_dir(tree, api.p)
              THEN [api EXCEPT !.at = "done", !.res = "returned", !.ret = api.p]
              ELSE IF api.p = parent(api.p)
              THEN [api EXCEPT !.at = "done", !.res = "FileNotFoundError"]
              ELSE [api EXCEPT !.p = parent(api.p)]
    /\ UNCHANGED <<have, file, live, dirty, plat, status, entry, tree, stack, log, prev, runs, art>>

NextWalk ==
    \/ Shortcut
    \/ Walk

\* the interpreter goes on running the function until it returns or raises
SpecWalk == InitWalk /\ [][NextWalk]_vars /\ WF_vars(NextWalk)

\* the ancestors of the working directory (itself included) that hold
\* cli/sh/provision.sh as a file
Roots == {q \in Prefixes(api.cwd) : is_file(tree, q \o ProvisionSh)}

Walked == api.at = "done" /\ api.walked

C37_WitnessRaised ==
    Walked /\ api.res = "FileNotFoundError" /\ Len(api.cwd) = MaxDepth

====
